---- MODULE Spec2Model ----
(***************************************************************************)
(* Model of hydra.go: the producer (main), the pool of worker goroutines,  *)
(* the jobs and retry channels, the mutex-guarded output and safeExit.     *)
(* Matrix mode (-l/-L with -p/-P) is the modelled pair source.             *)
(*                                                                         *)
(* Granularity: one action per blocking or shared-state operation of a     *)
(* goroutine.  client.Do and ioutil.ReadAll form one in-flight request     *)
(* that ends with an error (either of the two) or with a body.  A select   *)
(* with several ready cases is a nondeterministic choice among them, as    *)
(* in Go.  os.Exit and the return of main freeze every goroutine.          *)
(* Start-up failures (log.Fatal before the first push) are not modelled.   *)
(***************************************************************************)
EXTENDS Integers, Sequences, FiniteSets, TLC

\* ---- bounds -------------------------------------------------------------
NumTasks == 2            \* -t: number of workers, capacity of jobs
RetryQueueLength == 1    \* -r: capacity of retry
NumLogins == 2
NumPasswords == 2
MaxBody == 1             \* longest response body

\* ---- fixed inputs -------------------------------------------------------
Dot == 0                         \* the regexp metacharacter "."
Alphabet == {1, 2}               \* bytes of a response body
condition == <<1>>               \* flag.Arg(2) as a literal
rCondition == <<Dot>>            \* flag.Arg(2) compiled as a pattern

\* ---- processes ----------------------------------------------------------
Workers == 1..NumTasks
SigHandler == NumTasks + 1       \* the goroutine of lines 352-355
Procs == Workers \cup {SigHandler}
Unlocked == 0                    \* value of m when nobody holds it
Running == -1                    \* exitCode while the process lives

NumJobs == NumLogins * NumPasswords
NoJob == [user |-> 0, pass |-> 0]             \* Job{}
Job(k) == [user |-> ((k - 1) % NumLogins) + 1,
           pass |-> ((k - 1) \div NumLogins) + 1]
AllJobs == {Job(k) : k \in 1..NumJobs}
Bodies == UNION {[1..n -> Alphabet] : n \in 0..MaxBody}

VARIABLES
    firstOnly, invertedCondition, conditionIsRegexp, outputTo,  \* flags
    jobs, jobsClosed, retry,      \* the two channels
    m,                            \* sync.Mutex m: holder or Unlocked
    out, sink, closeCount,        \* io.WriteCloser out, its lines, Close() calls
    mainpc, spawned, produced,    \* main goroutine
    pc, job, ok, body,            \* per worker (pc also for the signal goroutine)
    exitCode,                     \* Running or the status passed to exit
    attempts, dropped, completed  \* history: jobs given to client.Do, jobs lost,
                                  \* jobs whose response was classified

vars == <<firstOnly, invertedCondition, conditionIsRegexp, outputTo,
          jobs, jobsClosed, retry, m, out, sink, closeCount,
          mainpc, spawned, produced, pc, job, ok, body, exitCode,
          attempts, dropped, completed>>

flags == <<firstOnly, invertedCondition, conditionIsRegexp, outputTo>>
hist == <<attempts, dropped, completed>>

\* ---- pure functions -----------------------------------------------------
\* bytes.Contains(b, sub)
Contains(b, sub) ==
    \E i \in 0..Len(b) :
        /\ i + Len(sub) <= Len(b)
        /\ \A k \in 1..Len(sub) : b[i + k] = sub[k]

\* (*regexp.Regexp).Match(b) for an unanchored pattern of bytes and "."
Match(re, b) ==
    \E i \in 0..Len(b) :
        /\ i + Len(re) <= Len(b)
        /\ \A k \in 1..Len(re) : re[k] = Dot \/ b[i + k] = re[k]

\* lines 226-234: the value of failed before "if failed { continue }"
FailedNoInvert(regex, inverted, b) ==
    IF regex THEN Match(rCondition, b) ELSE Contains(b, condition)

Failed(regex, inverted, b) ==
    LET matched == IF regex THEN Match(rCondition, b) ELSE Contains(b, condition)
    IN  IF inverted THEN ~matched ELSE matched

\* select { case retry <- job: default: }
RetryEnqueueUnbounded(q, j) == Append(q, j)

RetryEnqueueNever(q, j) == q

RetryEnqueue(q, j) ==
    IF Len(q) < RetryQueueLength THEN Append(q, j) ELSE q

\* ---- initial state: after lines 334-336 ---------------------------------
Init ==
    /\ firstOnly \in BOOLEAN
    /\ invertedCondition \in BOOLEAN
    /\ conditionIsRegexp \in BOOLEAN
    /\ outputTo \in BOOLEAN            \* TRUE: -o FILE given
    /\ jobs = <<>>
    /\ jobsClosed = FALSE
    /\ retry = <<>>
    /\ m = Unlocked
    /\ out = "stdout"
    /\ sink = <<>>
    /\ closeCount = 0
    /\ mainpc = "spawn"
    /\ spawned = 0
    /\ produced = 0
    /\ pc = [p \in Procs |-> IF p = SigHandler THEN "off" ELSE "unborn"]
    /\ job = [w \in Workers |-> NoJob]
    /\ ok = [w \in Workers |-> TRUE]
    /\ body = [w \in Workers |-> <<>>]
    /\ exitCode = Running
    /\ attempts = {}
    /\ dropped = {}
    /\ completed = {}

Alive == exitCode = Running

\* ---- main ---------------------------------------------------------------
\* lines 337-339: go worker(i)
MainSpawn ==
    /\ Alive /\ mainpc = "spawn"
    /\ spawned' = spawned + 1
    /\ pc' = [pc EXCEPT ![spawned + 1] = "select"]
    /\ mainpc' = IF spawned + 1 = NumTasks THEN "open" ELSE "spawn"
    /\ UNCHANGED <<flags, jobs, jobsClosed, retry, m, out, sink, closeCount,
                   produced, job, ok, body, exitCode, hist>>

\* lines 341-356: open the file, register the deferred Close, start the
\* signal goroutine; nothing when -o is absent
MainOpenSkipped ==
    /\ Alive /\ mainpc = "open"
    /\ pc' = IF outputTo THEN [pc EXCEPT ![SigHandler] = "wait"] ELSE pc
    /\ mainpc' = "produce"
    /\ UNCHANGED <<flags, jobs, jobsClosed, retry, m, out, sink, closeCount,
                   spawned, produced, job, ok, body, exitCode, hist>>

MainOpen ==
    /\ Alive /\ mainpc = "open"
    /\ out' = IF outputTo THEN "file" ELSE out
    /\ pc' = IF outputTo THEN [pc EXCEPT ![SigHandler] = "wait"] ELSE pc
    /\ mainpc' = "produce"
    /\ UNCHANGED <<flags, jobs, jobsClosed, retry, m, sink, closeCount,
                   spawned, produced, job, ok, body, exitCode, hist>>

\* lines 392-396: jobs <- Job{user, pass}; blocks while the channel is full
MainPushNoBlock ==
    /\ Alive /\ mainpc = "produce"
    /\ produced < NumJobs
    /\ jobs' = Append(jobs, Job(produced + 1))
    /\ produced' = produced + 1
    /\ UNCHANGED <<flags, jobsClosed, retry, m, out, sink, closeCount,
                   mainpc, spawned, pc, job, ok, body, exitCode, hist>>

MainPush ==
    /\ Alive /\ mainpc = "produce"
    /\ produced < NumJobs
    /\ Len(jobs) < NumTasks
    /\ jobs' = Append(jobs, Job(produced + 1))
    /\ produced' = produced + 1
    /\ UNCHANGED <<flags, jobsClosed, retry, m, out, sink, closeCount,
                   mainpc, spawned, pc, job, ok, body, exitCode, hist>>

\* line 399: close(jobs)
MainClose ==
    /\ Alive /\ mainpc = "produce"
    /\ produced = NumJobs
    /\ jobsClosed' = TRUE
    /\ mainpc' = "wait"
    /\ UNCHANGED <<flags, jobs, retry, m, out, sink, closeCount,
                   spawned, produced, pc, job, ok, body, exitCode, hist>>

\* line 400: wg.Wait()
MainWait ==
    /\ Alive /\ mainpc = "wait"
    /\ \A w \in Workers : pc[w] = "done"
    /\ mainpc' = IF outputTo THEN "defer" ELSE "return"
    /\ UNCHANGED <<flags, jobs, jobsClosed, retry, m, out, sink, closeCount,
                   spawned, produced, pc, job, ok, body, exitCode, hist>>

\* line 346, run when main returns: out.Close() without the mutex
MainDeferClose ==
    /\ Alive /\ mainpc = "defer"
    /\ closeCount' = closeCount + 1
    /\ mainpc' = "return"
    /\ UNCHANGED <<flags, jobs, jobsClosed, retry, m, out, sink,
                   spawned, produced, pc, job, ok, body, exitCode, hist>>

\* line 401: main returns, the process ends with status 0
MainReturn ==
    /\ Alive /\ mainpc = "return"
    /\ exitCode' = 0
    /\ mainpc' = "exited"
    /\ UNCHANGED <<flags, jobs, jobsClosed, retry, m, out, sink, closeCount,
                   spawned, produced, pc, job, ok, body, hist>>

\* ---- worker -------------------------------------------------------------
\* lines 155-160, case job, ok = <-jobs with a value
WorkerRecvJobLast(w) ==
    /\ Alive /\ pc[w] = "select" /\ ok[w]
    /\ jobs # <<>>
    /\ job' = [job EXCEPT ![w] = jobs[Len(jobs)]]
    /\ jobs' = SubSeq(jobs, 1, Len(jobs) - 1)
    /\ pc' = [pc EXCEPT ![w] = "do"]
    /\ UNCHANGED <<flags, jobsClosed, retry, m, out, sink, closeCount,
                   mainpc, spawned, produced, ok, body, exitCode, hist>>

WorkerRecvJob(w) ==
    /\ Alive /\ pc[w] = "select" /\ ok[w]
    /\ jobs # <<>>
    /\ job' = [job EXCEPT ![w] = Head(jobs)]
    /\ jobs' = Tail(jobs)
    /\ pc' = [pc EXCEPT ![w] = "do"]
    /\ UNCHANGED <<flags, jobsClosed, retry, m, out, sink, closeCount,
                   mainpc, spawned, produced, ok, body, exitCode, hist>>

\* lines 157-160, the receive on the closed and drained channel:
\* ok = false, continue loop
WorkerRecvClosed(w) ==
    /\ Alive /\ pc[w] = "select" /\ ok[w]
    /\ jobs = <<>> /\ jobsClosed
    /\ ok' = [ok EXCEPT ![w] = FALSE]
    /\ UNCHANGED <<flags, jobs, jobsClosed, retry, m, out, sink, closeCount,
                   mainpc, spawned, produced, pc, job, body, exitCode, hist>>

\* lines 161 and 167, case job = <-retry (in either select)
WorkerRecvRetryPeek(w) ==
    /\ Alive /\ pc[w] = "select"
    /\ retry # <<>>
    /\ job' = [job EXCEPT ![w] = Head(retry)]
    /\ pc' = [pc EXCEPT ![w] = "do"]
    /\ UNCHANGED <<flags, jobs, jobsClosed, retry, m, out, sink, closeCount,
                   mainpc, spawned, produced, ok, body, exitCode, hist>>

WorkerRecvRetry(w) ==
    /\ Alive /\ pc[w] = "select"
    /\ retry # <<>>
    /\ job' = [job EXCEPT ![w] = Head(retry)]
    /\ retry' = Tail(retry)
    /\ pc' = [pc EXCEPT ![w] = "do"]
    /\ UNCHANGED <<flags, jobs, jobsClosed, m, out, sink, closeCount,
                   mainpc, spawned, produced, ok, body, exitCode, hist>>

\* lines 162-163 and 168-169, default: break loop; then the deferred wg.Done()
WorkerBreakIgnoreRetry(w) ==
    /\ Alive /\ pc[w] = "select"
    /\ ok[w] => (jobs = <<>> /\ ~jobsClosed)
    /\ pc' = [pc EXCEPT ![w] = "done"]
    /\ UNCHANGED <<flags, jobs, jobsClosed, retry, m, out, sink, closeCount,
                   mainpc, spawned, produced, job, ok, body, exitCode, hist>>

WorkerBreak(w) ==
    /\ Alive /\ pc[w] = "select"
    /\ retry = <<>>
    /\ ok[w] => (jobs = <<>> /\ ~jobsClosed)
    /\ pc' = [pc EXCEPT ![w] = "done"]
    /\ UNCHANGED <<flags, jobs, jobsClosed, retry, m, out, sink, closeCount,
                   mainpc, spawned, produced, job, ok, body, exitCode, hist>>

\* lines 196-204 and 211-220: client.Do or ioutil.ReadAll fails; the error is
\* logged, the job goes to retry if there is room, continue
WorkerAttemptFailToJobs(w) ==
    /\ Alive /\ pc[w] = "do"
    /\ attempts' = attempts \cup {job[w]}
    /\ jobs' = IF Len(jobs) < NumTasks THEN Append(jobs, job[w]) ELSE jobs
    /\ dropped' = IF jobs' = jobs THEN dropped \cup {job[w]} ELSE dropped
    /\ job' = [job EXCEPT ![w] = NoJob]
    /\ pc' = [pc EXCEPT ![w] = "select"]
    /\ UNCHANGED <<flags, retry, jobsClosed, m, out, sink, closeCount,
                   mainpc, spawned, produced, ok, body, exitCode, completed>>

WorkerAttemptFail(w) ==
    /\ Alive /\ pc[w] = "do"
    /\ attempts' = attempts \cup {job[w]}
    /\ retry' = RetryEnqueue(retry, job[w])
    /\ dropped' = IF retry' = retry THEN dropped \cup {job[w]} ELSE dropped
    /\ job' = [job EXCEPT ![w] = NoJob]
    /\ pc' = [pc EXCEPT ![w] = "select"]
    /\ UNCHANGED <<flags, jobs, jobsClosed, m, out, sink, closeCount,
                   mainpc, spawned, produced, ok, body, exitCode, completed>>

\* lines 196-224: client.Do and ioutil.ReadAll succeed, body is read
WorkerAttemptOk(w) ==
    /\ Alive /\ pc[w] = "do"
    /\ attempts' = attempts \cup {job[w]}
    /\ \E b \in Bodies : body' = [body EXCEPT ![w] = b]
    /\ pc' = [pc EXCEPT ![w] = "classify"]
    /\ UNCHANGED <<flags, jobs, jobsClosed, retry, m, out, sink, closeCount,
                   mainpc, spawned, produced, job, ok, exitCode,
                   dropped, completed>>

\* lines 226-237: compute failed; continue when it is set
WorkerClassify(w) ==
    /\ Alive /\ pc[w] = "classify"
    /\ LET failed == Failed(conditionIsRegexp, invertedCondition, body[w])
       IN  /\ pc' = [pc EXCEPT ![w] = IF failed THEN "select" ELSE "lock"]
           /\ job' = [job EXCEPT ![w] = IF failed THEN NoJob ELSE @]
           /\ body' = [body EXCEPT ![w] = IF failed THEN <<>> ELSE @]
    /\ completed' = completed \cup {job[w]}
    /\ UNCHANGED <<flags, jobs, jobsClosed, retry, m, out, sink, closeCount,
                   mainpc, spawned, produced, ok, exitCode, attempts, dropped>>

\* line 239: m.Lock()
WorkerLockNoMutex(w) ==
    /\ Alive /\ pc[w] = "lock"
    /\ m' = w
    /\ pc' = [pc EXCEPT ![w] = "write"]
    /\ UNCHANGED <<flags, jobs, jobsClosed, retry, out, sink, closeCount,
                   mainpc, spawned, produced, job, ok, body, exitCode, hist>>

WorkerLock(w) ==
    /\ Alive /\ pc[w] = "lock"
    /\ m = Unlocked
    /\ m' = w
    /\ pc' = [pc EXCEPT ![w] = "write"]
    /\ UNCHANGED <<flags, jobs, jobsClosed, retry, out, sink, closeCount,
                   mainpc, spawned, produced, job, ok, body, exitCode, hist>>

\* lines 240-241 (and 246-248 when err is nil): Fprintf(out, ...), m.Unlock(),
\* then safeExit() under -f.  A write to a closed file fails.
WorkerWrite(w) ==
    /\ Alive /\ pc[w] = "write"
    /\ \E err \in BOOLEAN :
         /\ closeCount > 0 => err
         /\ sink' = IF err THEN sink ELSE Append(sink, job[w])
         /\ pc' = [pc EXCEPT ![w] = IF err THEN "logerr"
                                    ELSE IF firstOnly THEN "se_lock" ELSE "select"]
    /\ m' = Unlocked
    /\ job' = [job EXCEPT ![w] = NoJob]
    /\ body' = [body EXCEPT ![w] = <<>>]
    /\ UNCHANGED <<flags, jobs, jobsClosed, retry, out, closeCount,
                   mainpc, spawned, produced, ok, exitCode, hist>>

\* lines 242-248 when err is not nil: log.Print(err), then safeExit() under
\* -f, else the next iteration
WorkerLogWriteErrFatal(w) ==
    /\ Alive /\ pc[w] = "logerr"
    /\ exitCode' = 1
    /\ pc' = [pc EXCEPT ![w] = "exited"]
    /\ UNCHANGED <<flags, jobs, jobsClosed, retry, m, out, sink, closeCount,
                   mainpc, spawned, produced, job, ok, body, hist>>

WorkerLogWriteErr(w) ==
    /\ Alive /\ pc[w] = "logerr"
    /\ pc' = [pc EXCEPT ![w] = IF firstOnly THEN "se_lock" ELSE "select"]
    /\ UNCHANGED <<flags, jobs, jobsClosed, retry, m, out, sink, closeCount,
                   mainpc, spawned, produced, job, ok, body, exitCode, hist>>

\* ---- safeExit, called by a worker (line 247) or the signal goroutine ----
\* line 353: <-sig
Signal ==
    /\ Alive /\ pc[SigHandler] = "wait"
    /\ pc' = [pc EXCEPT ![SigHandler] = "se_lock"]
    /\ UNCHANGED <<flags, jobs, jobsClosed, retry, m, out, sink, closeCount,
                   mainpc, spawned, produced, job, ok, body, exitCode, hist>>

\* line 131: m.Lock()
SafeExitLockNoMutex(p) ==
    /\ Alive /\ pc[p] = "se_lock"
    /\ m' = m
    /\ pc' = [pc EXCEPT ![p] = "se_close"]
    /\ UNCHANGED <<flags, jobs, jobsClosed, retry, out, sink, closeCount,
                   mainpc, spawned, produced, job, ok, body, exitCode, hist>>

SafeExitLock(p) ==
    /\ Alive /\ pc[p] = "se_lock"
    /\ m = Unlocked
    /\ m' = p
    /\ pc' = [pc EXCEPT ![p] = "se_close"]
    /\ UNCHANGED <<flags, jobs, jobsClosed, retry, out, sink, closeCount,
                   mainpc, spawned, produced, job, ok, body, exitCode, hist>>

\* lines 132-136: out.Close(); m.Unlock()
SafeExitClose(p) ==
    /\ Alive /\ pc[p] = "se_close"
    /\ closeCount' = closeCount + 1
    /\ m' = Unlocked
    /\ pc' = [pc EXCEPT ![p] = "se_exit"]
    /\ UNCHANGED <<flags, jobs, jobsClosed, retry, out, sink,
                   mainpc, spawned, produced, job, ok, body, exitCode, hist>>

\* line 138: os.Exit(0)
SafeExitExit(p) ==
    /\ Alive /\ pc[p] = "se_exit"
    /\ exitCode' = 0
    /\ pc' = [pc EXCEPT ![p] = "exited"]
    /\ UNCHANGED <<flags, jobs, jobsClosed, retry, m, out, sink, closeCount,
                   mainpc, spawned, produced, job, ok, body, hist>>

\* ---- specification ------------------------------------------------------
\* every step but the arrival of a signal
NextNoSignal ==
    \/ MainSpawn
    \/ MainOpen
    \/ MainPush
    \/ MainClose
    \/ MainWait
    \/ MainDeferClose
    \/ MainReturn
    \/ \E w \in Workers : WorkerRecvJob(w)
    \/ \E w \in Workers : WorkerRecvClosed(w)
    \/ \E w \in Workers : WorkerRecvRetry(w)
    \/ \E w \in Workers : WorkerBreak(w)
    \/ \E w \in Workers : WorkerAttemptFail(w)
    \/ \E w \in Workers : WorkerAttemptOk(w)
    \/ \E w \in Workers : WorkerClassify(w)
    \/ \E w \in Workers : WorkerLock(w)
    \/ \E w \in Workers : WorkerWrite(w)
    \/ \E w \in Workers : WorkerLogWriteErr(w)
    \/ \E p \in Procs : SafeExitLock(p)
    \/ \E p \in Procs : SafeExitClose(p)
    \/ \E p \in Procs : SafeExitExit(p)

Next == NextNoSignal \/ Signal

Spec == Init /\ [][Next]_vars

TypeOK ==
    /\ Len(jobs) <= NumTasks
    /\ Len(retry) <= RetryQueueLength
    /\ m \in Procs \cup {Unlocked}

\* ---- derived notions ----------------------------------------------------
NoSignal == pc[SigHandler] \in {"off", "wait"}
\* the result of the containment or pattern test on a body
Matched(b) == IF conditionIsRegexp THEN Match(rCondition, b) ELSE Contains(b, condition)
\* worker w ends an HTTP attempt with a transient failure in this step
Fails(w) == pc[w] = "do" /\ pc'[w] # "do" /\ pc'[w] # "classify"

\* ---- C1 -----------------------------------------------------------------
\* C1: in matrix mode, without -f, without a signal and without a retry
\* overflow, a run that completes has pushed all |L|*|P| pairs and every one
\* of them was attempted by some worker.
C1_AllPairsAttempted ==
    (mainpc = "exited" /\ ~firstOnly /\ NoSignal /\ dropped = {})
        => (produced = NumJobs /\ \A k \in 1..NumJobs : Job(k) \in attempts)

\* ---- C2 -----------------------------------------------------------------
\* C2: under -f at most one line is ever written to the output.
C2_AtMostOneLine == firstOnly => Len(sink) <= 1

\* ---- C3 -----------------------------------------------------------------
\* C3: a worker goes on to write the pair exactly when matched = inverted,
\* and every write is of a pair classified that way.
C3_ReportedIffMatchedEqInverted ==
    [][\A w \in Workers :
         /\ (pc[w] = "classify" /\ pc'[w] # "classify")
               => ((pc'[w] = "lock") <=> (Matched(body[w]) = invertedCondition))
         /\ (pc[w] = "write" /\ pc'[w] # "write")
               => (Matched(body[w]) = invertedCondition)]_vars

C3_Witness ==
    /\ invertedCondition /\ conditionIsRegexp
    /\ \E w \in Workers : pc[w] = "write" /\ body[w] = <<2>>
    /\ \E j \in AllJobs : sink = <<j>>

\* ---- C4 -----------------------------------------------------------------
\* C4: the retry enqueue never blocks; on a full retry buffer the pair is
\* dropped, nothing else changes, the worker is back at its dequeue, and a
\* dropped pair is never attempted again.
C4_RetryOverflowDrops ==
    /\ [](\A w \in Workers : (Alive /\ pc[w] = "do") => ENABLED WorkerAttemptFail(w))
    /\ [][\A w \in Workers :
            /\ (Fails(w) /\ Len(retry) = RetryQueueLength)
                  => /\ retry' = retry
                     /\ job[w] \in dropped'
                     /\ pc'[w] = "select"
                     /\ exitCode' = Running
                     /\ sink' = sink
            /\ (pc[w] = "do" /\ pc'[w] # "do") => job[w] \notin dropped]_vars

C4_Witness ==
    /\ dropped # {}
    /\ \E w \in Workers : pc[w] = "do" /\ job[w] \notin dropped

\* ---- C5 -----------------------------------------------------------------
\* C5: without -f and without a signal the run cannot get stuck before the
\* process has exited with status 0.
C5_Terminates ==
    (~firstOnly /\ NoSignal) => (exitCode = 0 \/ ENABLED NextNoSignal)

\* ---- C6 -----------------------------------------------------------------
\* C6: safeExit closes the output holding m, never while a worker is inside
\* its write; then it exits with status 0, whatever is pending or in flight.
C6_ForcedExitClosesUnderLock ==
    /\ [](\A p \in Procs :
            /\ pc[p] = "se_close" => (m = p /\ \A w \in Workers : pc[w] # "write")
            /\ (Alive /\ pc[p] = "se_exit") => ENABLED SafeExitExit(p))
    /\ [][\A p \in Procs :
            (pc[p] # "exited" /\ pc'[p] = "exited")
                => (exitCode' = 0 /\ closeCount >= 1)]_vars

C6_Witness ==
    /\ \E p \in Procs : pc[p] = "exited"
    /\ jobs # <<>>
    /\ \E w \in Workers : pc[w] = "do"

\* ---- C7 -----------------------------------------------------------------
\* C7: the output is closed exactly once: never twice, and once on every run
\* that ends.
C7_ClosedExactlyOnce ==
    /\ closeCount <= 1
    /\ exitCode = 0 => closeCount = 1

\* ---- C8 -----------------------------------------------------------------
\* C8: a worker leaves its loop only when jobs is closed and empty and retry
\* is empty.
C8_WorkerExitsOnlyWhenExhausted ==
    [][\A w \in Workers :
         (pc[w] # "done" /\ pc'[w] = "done")
             => (jobsClosed /\ jobs = <<>> /\ retry = <<>>)]_vars

\* ---- C9 -----------------------------------------------------------------
\* C9: a worker receives from retry only when jobs is closed and empty.
C9_RetryOnlyAfterJobsExhausted ==
    [][\A w \in Workers :
         (pc[w] = "select" /\ pc'[w] = "do" /\ retry' # retry)
             => (jobsClosed /\ jobs = <<>>)]_vars

\* ---- C10 ----------------------------------------------------------------
\* C10: a transient failure leaves the worker running at its next dequeue,
\* writes nothing, puts the pair in retry exactly when there is room, and
\* ends neither the process nor any other goroutine.
C10_TransientFailureRecovered ==
    [][\A w \in Workers :
         Fails(w) =>
             /\ pc'[w] = "select"
             /\ sink' = sink /\ closeCount' = closeCount
             /\ retry' = IF Len(retry) < RetryQueueLength
                         THEN Append(retry, job[w]) ELSE retry
             /\ exitCode' = Running /\ mainpc' = mainpc
             /\ \A p \in Procs \ {w} : pc'[p] = pc[p]]_vars

C10_Witness ==
    /\ retry # <<>> /\ dropped = {}
    /\ \E w \in Workers : pc[w] = "do" /\ job[w] \in attempts

\* ---- C11 ----------------------------------------------------------------
\* C11: at most one worker is between m.Lock() and m.Unlock() of the write,
\* it holds m, and every line of the output is one whole produced pair.
C11_WriteMutualExclusion ==
    /\ \A v, w \in Workers : (pc[v] = "write" /\ pc[w] = "write") => v = w
    /\ \A w \in Workers : pc[w] = "write" => (m = w /\ job[w] \in AllJobs)
    /\ \A i \in 1..Len(sink) : sink[i] \in AllJobs

C11_Witness ==
    /\ \E v, w \in Workers : pc[v] = "write" /\ pc[w] = "lock"
    /\ Len(sink) = 1

\* ---- C12 ----------------------------------------------------------------
\* the production order of matrix mode: password outer, login inner
Before(a, b) == a.pass < b.pass \/ (a.pass = b.pass /\ a.user < b.user)

\* C12: jobs holds its pairs in production order, a push appends a pair that
\* comes after all pairs pushed so far, and the k-th receive from jobs
\* returns the k-th pair produced.
C12_FifoInProductionOrder ==
    /\ [](\A i, k \in 1..Len(jobs) : i < k => Before(jobs[i], jobs[k]))
    /\ [][/\ produced' # produced =>
                /\ jobs' = Append(jobs, Job(produced'))
                /\ \A k \in 1..produced : Before(Job(k), Job(produced'))
          /\ \A w \in Workers :
                (pc[w] = "select" /\ pc'[w] = "do" /\ jobs' # jobs) =>
                    /\ job'[w] = Job(produced - Len(jobs) + 1)
                    /\ \A i \in 1..Len(jobs') : Before(job'[w], jobs'[i])]_vars

C12_Witness ==
    /\ produced = NumJobs
    /\ jobs = <<Job(NumJobs)>>
    /\ \E w \in Workers : pc[w] = "do" /\ job[w] = Job(NumJobs - 1)
                          /\ job[w].pass > 1

\* ---- C13 ----------------------------------------------------------------
\* C13: jobs never holds more than NumTasks pairs and retry never more than
\* RetryQueueLength; on a full jobs channel main can take no step; on a full
\* retry the failing worker's step is still possible.
C13_CapacitiesAndBlocking ==
    /\ Len(jobs) <= NumTasks
    /\ Len(retry) <= RetryQueueLength
    /\ (Alive /\ mainpc = "produce" /\ produced < NumJobs /\ Len(jobs) = NumTasks)
          => /\ ~ENABLED MainPush
             /\ ~ENABLED MainClose
             /\ \A w \in Workers :
                   (pc[w] = "select" /\ ok[w]) => ENABLED WorkerRecvJob(w)
    /\ (Alive /\ mainpc = "produce" /\ produced < NumJobs /\ Len(jobs) < NumTasks)
          => ENABLED MainPush
    /\ \A w \in Workers :
          (Alive /\ pc[w] = "do" /\ Len(retry) = RetryQueueLength)
              => ENABLED WorkerAttemptFail(w)

C13_Witness ==
    /\ Alive /\ mainpc = "produce" /\ produced < NumJobs
    /\ Len(jobs) = NumTasks
    /\ Len(retry) = RetryQueueLength
    /\ \E w \in Workers : pc[w] = "select" /\ ok[w]

\* ---- C14 ----------------------------------------------------------------
\* out is the output of the run: os.Stdout from the start, the file of -o
\* once line 342 has run
SinkOpen == out = IF outputTo THEN "file" ELSE "stdout"
AllWorkersDone == \A w \in Workers : pc[w] = "done"

\* C14 as stated: the output is open whenever some worker has been started,
\* and main closes it only when all workers are done.
C14_OpenedBeforeWorkersStart ==
    /\ (\E w \in Workers : pc[w] # "unborn") => SinkOpen
    /\ mainpc \in {"defer", "return", "exited"} => AllWorkersDone

\* C14 as amended: the output is open before the first pair is pushed, so
\* before any worker holds a pair or writes; main closes it only when all
\* workers are done.
C14_OpenedBeforeFirstPush ==
    /\ ~SinkOpen => /\ produced = 0 /\ jobs = <<>> /\ sink = <<>>
                    /\ \A w \in Workers : pc[w] \in {"unborn", "select", "done"}
    /\ mainpc \in {"defer", "return", "exited"} => AllWorkersDone

C14_Witness ==
    /\ outputTo /\ out = "file"
    /\ mainpc = "return" /\ closeCount = 1
    /\ sink # <<>>

\* ---- C15 ----------------------------------------------------------------
\* C15: jobs grows only by a push of main made before close(jobs), never by
\* a step of a worker; once closed it stays closed; a worker sees ok = false
\* only when jobs is closed and every pushed pair has been received.
C15_OnlyProducerPushesBeforeClose ==
    [][/\ Len(jobs') > Len(jobs) =>
             /\ ~jobsClosed /\ ~jobsClosed'
             /\ mainpc = "produce" /\ produced' = produced + 1
             /\ pc' = pc /\ retry' = retry
       /\ jobsClosed => (jobsClosed' /\ produced' = produced)
       /\ \A w \in Workers :
             (ok[w] /\ ~ok'[w]) => (jobsClosed /\ jobs = <<>>)]_vars

C15_Witness ==
    /\ jobsClosed
    /\ \E w \in Workers : ~ok[w] /\ pc[w] = "do"

\* ---- C16 ----------------------------------------------------------------
Occurrences(q, j) == Cardinality({i \in 1..Len(q) : q[i] = j})
InFlight(j) == {w \in Workers : pc[w] \in {"do", "classify"} /\ job[w] = j}
Places(j) ==
    Occurrences(jobs, j) + Occurrences(retry, j) + Cardinality(InFlight(j))
    + (IF j \in dropped THEN 1 ELSE 0) + (IF j \in completed THEN 1 ELSE 0)

\* C16: every produced pair is in exactly one of jobs, retry, one worker's
\* request, completed, dropped; a pair received from jobs was never attempted
\* before; a completed pair is never attempted again; no pair is reported
\* twice.
C16_PairsConserved ==
    /\ [](/\ \A k \in 1..NumJobs :
                Places(Job(k)) = IF k <= produced THEN 1 ELSE 0
          /\ \A i, k \in 1..Len(sink) : sink[i] = sink[k] => i = k
          /\ \A i \in 1..Len(sink) : sink[i] \in completed)
    /\ [][\A w \in Workers :
            /\ (pc[w] = "do" /\ pc'[w] # "do") => job[w] \notin completed
            /\ (pc[w] = "select" /\ pc'[w] = "do" /\ jobs' # jobs)
                  => job'[w] \notin attempts]_vars

C16_Witness ==
    /\ completed # {} /\ dropped # {} /\ retry # <<>> /\ sink # <<>>
    /\ \E w \in Workers : pc[w] = "do"

\* ---- C17 ----------------------------------------------------------------
\* C17 as stated: after a failed write the worker goes on to its next
\* dequeue and the process lives.
C17_WriteErrorWorkerContinues ==
    [][\A w \in Workers :
         (pc[w] = "logerr" /\ pc'[w] # "logerr")
             => (pc'[w] = "select" /\ exitCode' = Running)]_vars

\* C17 as amended: a failed write ends neither the worker nor the process;
\* the worker does next what it does after a successful write: its next
\* dequeue, or safeExit under -f.
C17_WriteErrorNotFatal ==
    [][\A w \in Workers :
         /\ (pc[w] = "write" /\ pc'[w] = "logerr")
               => (exitCode' = Running /\ sink' = sink)
         /\ (pc[w] = "logerr" /\ pc'[w] # "logerr")
               => /\ exitCode' = Running
                  /\ pc'[w] = IF firstOnly THEN "se_lock" ELSE "select"]_vars

C17_Witness ==
    /\ ~firstOnly /\ closeCount = 0
    /\ \E w \in Workers : pc[w] = "logerr"
    /\ \E w \in Workers : pc[w] = "do"

\* ---- C18 ----------------------------------------------------------------
\* C18: when every worker has left its loop, retry is empty.
C18_NoStrandedRetry == AllWorkersDone => retry = <<>>

C18_Witness == AllWorkersDone /\ dropped # {} /\ completed # {}

\* ---- C19 ----------------------------------------------------------------
\* C19: no worker calls Fprintf on the output after Close has been called.
C19_NoWriteAfterClose ==
    [][\A w \in Workers :
         (pc[w] = "write" /\ pc'[w] # "write") => closeCount = 0]_vars

\* ---- C20 ----------------------------------------------------------------
\* C20: main is never blocked on a full jobs channel with every worker gone.
C20_ProducerNeverStranded ==
    ~(/\ Alive /\ mainpc = "produce" /\ produced < NumJobs
      /\ Len(jobs) = NumTasks
      /\ AllWorkersDone)

====
